---------------------------- MODULE Spec2Model ----------------------------
(***************************************************************************)
(* Diffusion-of-innovation simulation (offero/diffusionsim).               *)
(*                                                                         *)
(* The module models three entry points of the package src/src/disim:      *)
(*   - GenSpec : the network generator class DICorePeriphNxGenerator and   *)
(*               generateARCorePeriph (graphgen.py), driven the way        *)
(*               test/test_graphgen.py drives it;                          *)
(*   - SimSpec : one trial of run1997ThresholdModel (disim.py 154-218) on  *)
(*               an arbitrary generated network: attribute                 *)
(*               initialisation, seeding, the round loop and the boundary  *)
(*               analysis;                                                 *)
(*   - Spec    : the experiment driver run1997ThresholdModel as a whole    *)
(*               (the case sweep, the trials of a case, the logs).         *)
(*                                                                         *)
(* Real numbers (the assessed profit I, ratios) are exact rationals        *)
(* <<numerator, denominator>> with a positive denominator; floating-point  *)
(* rounding is not modelled.  A networkx MultiGraph is a record            *)
(* [nodes, edges, node]: edges is the set of the (a, b) tuples that were   *)
(* added (the generator never adds the same tuple twice, so the set is the *)
(* multiset of edges), node maps a node id to its attribute dictionary.    *)
(***************************************************************************)
EXTENDS Integers, Sequences, FiniteSets, TLC

VARIABLES
    pc,            \* control position of the modelled entry point
    err,           \* the exception that ended the run, "none" while running
    params,        \* arguments of the entry point
    nxGen,         \* the DICorePeriphNxGenerator object (GenSpec)
    calls,         \* number of next() calls made on nxGen (GenSpec)
    numCoreNodes,  \* run1997ThresholdModel: number of core nodes
    cases,         \* the (pties, Ai) cases not yet run, in order
    case,          \* the current case [pties, Ai]
    trial,         \* the trial counter of the current case
    Gorig,         \* the network generated for the current case
    G,             \* the working network of the current trial
    seedNode,      \* the node seeded as first adopter
    agents,        \* agents of the current round not yet evaluated
    madeChange,    \* the round loop's madeChange flag
    rounds,        \* number of rounds started in the current trial
    roundStart,    \* the adopted nodes when the current round started
    lastEval,      \* the most recent evaluation: node, neighbours seen, Bik
    wpp,           \* the (weaknesses, ppoints) pair of the current trial
    WPP_CACHE,     \* graphsearch.WPP_CACHE: cache key -> result
    stats,         \* the three Data accumulators of the current case
    expTrialLog,   \* the trial log: columns 0-2 of every row written
    lastTrialRow,  \* the last row written to the trial log, all columns
    expCaseLog,    \* the case log: column 0 of every row written
    lastCaseRow,   \* the last row written to the case log, all columns
    dataObj,       \* a Data accumulator fed directly (DataSpec)
    observed,      \* the observations given to dataObj, in order
    edits,         \* number of changes made to a network between analyses
    outFiles       \* what run1997ThresholdModel has created under outFilePath

genVars == <<nxGen, calls>>
caseVars == <<numCoreNodes, cases, case, Gorig, expCaseLog, lastCaseRow>>
trialVars == <<G, seedNode, agents, madeChange, rounds, roundStart, lastEval>>
recordVars == <<trial, wpp, WPP_CACHE, stats, expTrialLog, lastTrialRow>>

harnessVars == <<dataObj, observed, edits>>

vars == <<pc, err, params, genVars, caseVars, trialVars, recordVars,
          harnessVars, outFiles>>

---------------------------------------------------------------------------
(* Bounds of the model *)

\* largest number of core nodes drawn as an input
MaxCore == 2
\* largest number of periphery nodes drawn as an input
MaxPeriph == 2
\* largest pties argument given to the generator class
MaxPties == 2
\* number of next() calls made on one generator
MaxCalls == 2
\* largest numberOfNodes argument of run1997ThresholdModel
MaxNumberOfNodes == 2
\* largest trials argument of run1997ThresholdModel
MaxTrials == 2

\* largest absolute value of a negative numberOfNodes given to the driver
MaxNegativeNodes == 2

\* largest numberOfNodes whose sweep is laid out (SweepSpec)
MaxSweepNodes == 8

\* largest network and largest number of peripheral ties of a cell whose
\* trials are run one after the other (CellSpec)
MaxCellNodes == 2
MaxCellPties == 1
\* largest network (core plus periphery nodes) a single trial is run on
MaxSimNodes == 3
\* largest number of peripheral ties of such a network
MaxSimPties == 1
\* largest generated network handed to the boundary analysis directly
MaxAnNodes == 2
\* number of findWeaknessesAndPressurePoints calls made on one network
MaxAnalyses == 2
\* number of changes made to one network between its analyses
MaxEdits == 1
\* number of observations given to one Data accumulator directly
MaxObservations == 3

---------------------------------------------------------------------------
(* Exact rationals *)

RatAdd(x, y) == <<x[1] * y[2] + y[1] * x[2], x[2] * y[2]>>
RatMul(x, y) == <<x[1] * y[1], x[2] * y[2]>>
RatGT0(x) == x[1] > 0
RatGE(x, y) == x[1] * y[2] >= y[1] * x[2]

---------------------------------------------------------------------------
(* stats.py *)

\* possibleTies(numberOfNodes, numCore): n*(n-1) is even, so the true
\* division followed by int() is the exact quotient
possibleTies(numberOfNodes, numCore) ==
    LET totalPossibleTies == (numberOfNodes * (numberOfNodes - 1)) \div 2
        totalPossibleCoreTies == (numCore * (numCore - 1)) \div 2
        totalPossiblePeriphTies == totalPossibleTies - totalPossibleCoreTies
    IN  <<totalPossibleTies, totalPossibleCoreTies, totalPossiblePeriphTies>>

---------------------------------------------------------------------------
(* networkx MultiGraph operations used by the package *)

NoGraph == [nodes |-> {}, edges |-> {}, node |-> <<>>]

number_of_nodes(g) == Cardinality(g.nodes)
number_of_edges(g) == Cardinality(g.edges)

\* G.neighbors(a): the keys of the adjacency dictionary of a, each
\* neighbour once whatever the number of parallel edges
neighbors(g, a) == {b \in g.nodes : <<a, b>> \in g.edges \/ <<b, a>> \in g.edges}

\* G.edges(nbunch): every edge with an endpoint in nbunch, once
edgesOf(g, nbunch) == {e \in g.edges : e[1] \in nbunch \/ e[2] \in nbunch}

\* x in list
InList(x, list) == \E i \in 1..Len(list) : list[i] = x

\* the nodes tagged 'core' and the others (disim.py 167-170)
coreNodesOf(g) == {a \in g.nodes : InList("core", g.node[a].segments)}
periphNodesOf(g) == {a \in g.nodes : ~InList("core", g.node[a].segments)}

---------------------------------------------------------------------------
(* graphgen.py *)

\* range(a, b)
range(a, b) == a..(b - 1)

\* itertools.combinations(nodes, 2) over a sorted range
combinations2(nodes) == {<<a, b>> \in nodes \X nodes : a < b}

\* mutant: the pairs (x, x) are kept
dissimilarProduct_withEqual(A, B) == A \X B

dissimilarProduct(A, B) == {<<x, y>> \in A \X B : x # y}

\* mutant: sampling from an empty population fails even for k = 0
sampleFails_emptyPopulation(population, k) ==
    k < 0 \/ k > Cardinality(population) \/ population = {}

\* random.sample(population, k): ValueError when k is negative or larger
\* than the population, else any k distinct elements
sampleFails(population, k) == k < 0 \/ k > Cardinality(population)
RECURSIVE sample(_, _)
sample(population, k) ==
    IF k = 0 THEN {{}}
    ELSE IF population = {} THEN {}
    ELSE LET x == CHOOSE e \in population : TRUE
         IN  sample(population \ {x}, k) \cup
             {S \cup {x} : S \in sample(population \ {x}, k - 1)}

\* the attribute dictionary of a node after setDefaultNodeAttrs
setDefaultNodeAttrs(segments) ==
    [segments |-> segments, adopted |-> FALSE, influence |-> {},
     weak |-> FALSE, ppoint |-> FALSE]

\* mutant: the core-to-core ordered pairs are candidates too
allPotentialEdges_withCore(numCore, numPeriph) ==
    LET n == numCore + numPeriph
    IN  dissimilarProduct(range(0, n), range(0, n))

\* the tuple the peripheral ties are sampled from (lines 157-162)
allPotentialEdges(numCore, numPeriph) ==
    LET n == numCore + numPeriph
        coreNodes == range(0, numCore)
        periphNodes == range(numCore, n)
        pcedges == dissimilarProduct(periphNodes, coreNodes)
        ppedges == dissimilarProduct(periphNodes, periphNodes)
    IN  pcedges \cup ppedges

\* mutant: the first periphery node is tagged as a core node
buildARCorePeriph_tagOffByOne(numCore, numPeriph, sampEdges) ==
    LET n == numCore + numPeriph
        coreNodes == range(0, numCore)
    IN  [nodes |-> range(0, n),
         edges |-> combinations2(coreNodes) \cup sampEdges,
         node |-> [a \in range(0, n) |->
                     setDefaultNodeAttrs(IF a \in range(0, numCore + 1)
                                         THEN <<"core">>
                                         ELSE <<"periphery">>)]]

\* the network built from one sample of edges (lines 142-172)
buildARCorePeriph(numCore, numPeriph, sampEdges) ==
    LET n == numCore + numPeriph
        coreNodes == range(0, numCore)
    IN  [nodes |-> range(0, n),
         edges |-> combinations2(coreNodes) \cup sampEdges,
         node |-> [a \in range(0, n) |->
                     setDefaultNodeAttrs(IF a \in coreNodes
                                         THEN <<"core">>
                                         ELSE <<"periphery">>)]]

\* generateARCorePeriph: the set of its outcomes [err, G]
generateARCorePeriph(numCore, numPeriph, pties) ==
    IF ~(numCore >= 0 /\ numPeriph >= 0)
    THEN {[err |-> "AssertionError", G |-> NoGraph]}
    ELSE LET population == allPotentialEdges(numCore, numPeriph)
         IN  IF sampleFails(population, pties)
             THEN {[err |-> "ValueError", G |-> NoGraph]}
             ELSE {[err |-> "none",
                    G |-> buildARCorePeriph(numCore, numPeriph, s)] :
                   s \in sample(population, pties)}

\* mutant: the bound check is off by one (>= for >)
GeneratorInitError_offByOne(numCore, numPeriph, pties) ==
    IF ~(numCore >= 0 /\ numPeriph >= 0 /\ pties >= 0)
    THEN "AssertionError"
    ELSE IF pties >= possibleTies(numCore + numPeriph, numCore)[3]
         THEN "Exception"
         ELSE "none"

\* DICorePeriphNxGenerator.__init__: the exception it raises, or "none"
GeneratorInitError(numCore, numPeriph, pties) ==
    IF ~(numCore >= 0 /\ numPeriph >= 0 /\ pties >= 0)
    THEN "AssertionError"
    ELSE IF pties > possibleTies(numCore + numPeriph, numCore)[3]
         THEN "Exception"
         ELSE "none"

NoGenerator == [n |-> -1, numCoreNodes |-> -1, numPeriphNodes |-> -1, pties |-> -1]

---------------------------------------------------------------------------
(* data.py *)

RECURSIVE GCD(_, _)
GCD(a, b) == IF b = 0 THEN a ELSE GCD(b, a % b)

Abs(x) == IF x < 0 THEN -x ELSE x

\* a rational in lowest terms
Norm(x) == LET g == GCD(Abs(x[1]), x[2]) IN <<x[1] \div g, x[2] \div g>>

RatLT(x, y) == x[1] * y[2] < y[1] * x[2]
RatDiv(x, k) == Norm(<<x[1], x[2] * k>>)

\* sys.float_info.max and sys.float_info.min (the smallest positive
\* normalised float): every observation of the model lies strictly between
\* -FloatInfoMax and FloatInfoMax, and every positive one above FloatInfoMin
FloatInfoMax == <<1000000, 1>>
FloatInfoMin == <<1, 1000000>>

\* Data.__init__
Data == [N |-> 0, min |-> FloatInfoMax, max |-> FloatInfoMin,
         sum |-> <<0, 1>>, sum2 |-> <<0, 1>>]

\* Data.addDatum
addDatum(d, val) ==
    [N |-> d.N + 1,
     min |-> IF RatLT(val, d.min) THEN val ELSE d.min,
     max |-> IF RatLT(d.max, val) THEN val ELSE d.max,
     sum |-> Norm(RatAdd(d.sum, val)),
     sum2 |-> Norm(RatAdd(d.sum2, RatMul(val, val)))]

\* Data.average
average(d) == IF d.N > 0 THEN RatDiv(d.sum, d.N) ELSE <<0, 1>>

RatSub(x, y) == <<x[1] * y[2] - y[1] * x[2], x[2] * y[2]>>

\* mutant: the population variance (division by N for N - 1)
variance_population(d) ==
    IF d.N > 1
    THEN LET avg == average(d)
             arg == RatSub(d.sum2, RatMul(<<d.N, 1>>, RatMul(avg, avg)))
         IN  RatDiv(arg, d.N)
    ELSE <<0, 1>>

\* Data.variance
variance(d) ==
    IF d.N > 1
    THEN LET avg == average(d)
             arg == RatSub(d.sum2, RatMul(<<d.N, 1>>, RatMul(avg, avg)))
         IN  RatDiv(arg, d.N - 1)
    ELSE <<0, 1>>

---------------------------------------------------------------------------
(* graphsearch.py *)

RECURSIVE SortedSeq(_)
\* the elements of a set of node ids in G.nodes() order (ascending ids)
SortedSeq(S) ==
    IF S = {} THEN <<>>
    ELSE LET m == CHOOSE x \in S : \A y \in S : x <= y
         IN  <<m>> \o SortedSeq(S \ {m})

SeqToSet(q) == {q[i] : i \in 1..Len(q)}

\* the nodes of targetSegment (line 179)
segmentNodes(g, targetSegment) ==
    {n \in g.nodes : InList(targetSegment, g.node[n].segments)}

\* mutant: only the adopted neighbours outside targetSegment count
B_a_i_adoptedOnly(g, a_i, targetSegment) ==
    {n \in neighbors(g, a_i) :
        ~InList(targetSegment, g.node[n].segments) /\ g.node[n].adopted}

\* the neighbours of a_i outside targetSegment (lines 185-186)
B_a_i(g, a_i, targetSegment) ==
    {n \in neighbors(g, a_i) : ~InList(targetSegment, g.node[n].segments)}

\* mutant: a node without a neighbour outside its segment can be weak
isWeak_ignoresBoundary(g, a_i, targetSegment) ==
    RatGT0(RatAdd(g.node[a_i].I,
                  RatMul(<<g.node[a_i].A, 1>>, <<1, number_of_nodes(g)>>)))

\* the weakness test of a node (lines 188-191)
isWeak(g, a_i, targetSegment) ==
    /\ Cardinality(B_a_i(g, a_i, targetSegment)) > 0
    /\ RatGT0(RatAdd(g.node[a_i].I,
                     RatMul(<<g.node[a_i].A, 1>>, <<1, number_of_nodes(g)>>)))

\* mutant: the pressure-point test is strict (> for >=)
isPressurePoint_strict(g, a_i, targetSegment, proportion) ==
    LET n_a == Cardinality(segmentNodes(g, targetSegment))
        n_b == number_of_nodes(g) - n_a
        tmp == RatMul(<<n_b, 1>>, proportion)
    IN  ~RatGE(tmp, <<Cardinality(B_a_i(g, a_i, targetSegment)), 1>>)

\* the pressure-point test of a node (lines 196-197)
isPressurePoint(g, a_i, targetSegment, proportion) ==
    LET n_a == Cardinality(segmentNodes(g, targetSegment))
        n_b == number_of_nodes(g) - n_a
        tmp == RatMul(<<n_b, 1>>, proportion)
    IN  RatGE(<<Cardinality(B_a_i(g, a_i, targetSegment)), 1>>, tmp)

\* mutant: the analysis resets the adoption attributes of the nodes it
\* marks (as setDefaultNodeAttrs does)
computeWPP_resetsAdopted(g, proportion, targetSegment) ==
    LET A == segmentNodes(g, targetSegment)
        weakNodes == {a \in A : isWeak(g, a, targetSegment)}
        pressurePointNodes ==
            {a \in A : isPressurePoint(g, a, targetSegment, proportion)}
    IN  [result |-> <<SortedSeq(weakNodes), SortedSeq(pressurePointNodes)>>,
         G |-> [g EXCEPT !.node =
                  [a \in g.nodes |->
                     [g.node[a] EXCEPT
                        !.adopted = IF a \in weakNodes \cup pressurePointNodes
                                    THEN FALSE ELSE @,
                        !.weak = IF a \in weakNodes THEN TRUE ELSE @,
                        !.ppoint = IF a \in pressurePointNodes THEN TRUE ELSE @]]]]

\* the body of findWeaknessesAndPressurePoints after a cache miss, with
\* addGraphAttrs = True (lines 176-204): the two lists and the graph
computeWPP(g, proportion, targetSegment) ==
    LET A == segmentNodes(g, targetSegment)
        weakNodes == {a \in A : isWeak(g, a, targetSegment)}
        pressurePointNodes ==
            {a \in A : isPressurePoint(g, a, targetSegment, proportion)}
    IN  [result |-> <<SortedSeq(weakNodes), SortedSeq(pressurePointNodes)>>,
         G |-> [g EXCEPT !.node =
                  [a \in g.nodes |->
                     [g.node[a] EXCEPT
                        !.weak = IF a \in weakNodes THEN TRUE ELSE @,
                        !.ppoint = IF a \in pressurePointNodes THEN TRUE ELSE @]]]]

\* the default value of the proportion argument
defaultProportion == <<1, 2>>

clearWPPCache_keeps(cache) == cache

\* clearWPPCache(): WPP_CACHE.clear() deletes every entry
clearWPPCache(cache) == <<>>

\* findWeaknessesAndPressurePoints(G, proportion, targetSegment) with
\* ignoreCache = False (lines 167-204): the returned pair, the network, the
\* cache after the call, and whether the cache answered.  graphId stands for
\* the identity of the graph object, which is what the key's G hashes to
findWeaknessesAndPressurePoints(cache, graphId, g, proportion, targetSegment) ==
    LET cacheKey == <<graphId, proportion, targetSegment>>
    IN  IF cacheKey \in DOMAIN cache
        THEN [result |-> cache[cacheKey], G |-> g, cache |-> cache,
              cached |-> TRUE]
        ELSE LET r == computeWPP(g, proportion, targetSegment)
             IN  [result |-> r.result, G |-> r.G,
                  cache |-> (cacheKey :> r.result) @@ cache,
                  cached |-> FALSE]

---------------------------------------------------------------------------
(* disim.py: run1997ThresholdModel *)

\* the interval of the peripheral tie counts of the sweep
tieInterval == 5

\* A_i = xrange(1, 6)
A_i == [i \in 1..5 |-> i]

\* sample of the values gauss(-1.0, 1.0) can return
IValues == {<<-1, 2>>, <<1, 4>>}

\* int(round(numberOfNodes * cpRatio)): round() rounds halves away from zero
roundToInt(x) ==
    IF x[1] >= 0 THEN (2 * x[1] + x[2]) \div (2 * x[2])
    ELSE -((2 * (-x[1]) + x[2]) \div (2 * x[2]))

xrange0_inclusive(stop, step) ==
    IF stop < 0 THEN <<>>
    ELSE [i \in 1..((stop \div step) + 1) |-> (i - 1) * step]

\* xrange(0, stop, step) as a list
xrange0(stop, step) ==
    IF stop <= 0 THEN <<>>
    ELSE [i \in 1..(((stop - 1) \div step) + 1) |-> (i - 1) * step]

\* itertools.product(xs, ys) as a list, the last index running fastest
product(xs, ys) ==
    [k \in 1..(Len(xs) * Len(ys)) |->
        <<xs[((k - 1) \div Len(ys)) + 1], ys[((k - 1) % Len(ys)) + 1]>>]

\* targetSegment (lines 85, 217-218)
targetSegmentOf(trickleDirection) ==
    IF trickleDirection = "down" THEN "periphery" ELSE "core"

initTrialGraph_keepsMarks(g, Ival, Ai) ==
    [nodes |-> g.nodes,
     edges |-> g.edges,
     node |-> [a \in g.nodes |->
                 [segments |-> g.node[a].segments,
                  weak |-> IF a \in G.nodes THEN G.node[a].weak
                           ELSE g.node[a].weak,
                  ppoint |-> IF a \in G.nodes THEN G.node[a].ppoint
                             ELSE g.node[a].ppoint,
                  I |-> Ival[a],
                  A |-> Ai,
                  adopted |-> FALSE,
                  influence |-> {}]]]

\* G = Gorig.copy() followed by lines 161-165: a deep copy whose nodes get
\* fresh I, A, adopted and influence attributes
initTrialGraph(g, Ival, Ai) ==
    [nodes |-> g.nodes,
     edges |-> g.edges,
     node |-> [a \in g.nodes |->
                 [segments |-> g.node[a].segments,
                  weak |-> g.node[a].weak,
                  ppoint |-> g.node[a].ppoint,
                  I |-> Ival[a],
                  A |-> Ai,
                  adopted |-> FALSE,
                  influence |-> {}]]]

\* mutant: the seed is drawn from the wrong segment
seedCandidates_swapped(g, trickleDirection) ==
    IF trickleDirection = "down" THEN periphNodesOf(g) ELSE coreNodesOf(g)

\* mutant: an empty segment falls back to the whole network
seedCandidates_fallback(g, trickleDirection) ==
    LET segment == IF trickleDirection = "down" THEN coreNodesOf(g)
                   ELSE periphNodesOf(g)
    IN  IF segment = {} THEN g.nodes ELSE segment

\* the list choice() draws the seed from (lines 167-175)
seedCandidates(g, trickleDirection) ==
    IF trickleDirection = "down" THEN coreNodesOf(g) ELSE periphNodesOf(g)

adoptedNodes(g) == {n \in g.nodes : g.node[n].adopted}

\* mutant: agents that have adopted are evaluated again
agentsOfRound_all(g) == g.nodes

\* agents = [n for n in G.nodes() if not G.node[n]['adopted']] (line 181)
agentsOfRound(g) == {n \in g.nodes : ~g.node[n].adopted}

\* mutant: the neighbours adopted when the round started (a snapshot)
adoptedNeighborsOf_snapshot(g, a) == {n \in neighbors(g, a) : n \in roundStart}

\* mutant: every neighbour, adopted or not
adoptedNeighborsOf_allNeighbors(g, a) == neighbors(g, a)

\* adoptedNeighbors (lines 197-199)
adoptedNeighborsOf(g, a) == {n \in neighbors(g, a) : g.node[n].adopted = TRUE}

\* mutant: integer division in Pk1 (no "from __future__ import division")
BikOf_intDivision(g, a) ==
    LET Pk1 == <<Cardinality(adoptedNeighborsOf(g, a)) \div number_of_nodes(g), 1>>
    IN  RatAdd(g.node[a].I, RatMul(<<g.node[a].A, 1>>, Pk1))

\* Bik = I + A * Pk1 with Pk1 = len(adoptedNeighbors) / N (lines 203-204)
BikOf(g, a) ==
    LET Pk1 == <<Cardinality(adoptedNeighborsOf(g, a)), number_of_nodes(g)>>
    IN  RatAdd(g.node[a].I, RatMul(<<g.node[a].A, 1>>, Pk1))

\* mutant: the adoption test is not strict (Bik >= 0)
willAdopt_nonStrict(g, a) == BikOf(g, a)[1] >= 0

\* the adoption test (line 205)
willAdopt(g, a) == RatGT0(BikOf(g, a))

\* mutant: the loop is left after the first round
loopEnds_afterOneRound(changed) == TRUE

\* the test that ends the round loop (lines 212-213)
loopEnds(changed) == ~changed

NoEval == [node |-> -1, adoptedNeighbors |-> {}, Bik |-> <<0, 1>>, adopts |-> FALSE]
NoCase == [pties |-> -1, Ai |-> -1]
NoRow == <<>>

\* the values of the variables before the entry point reaches them
IdleGen == nxGen = NoGenerator /\ calls = 0
IdleCase ==
    /\ numCoreNodes = -1
    /\ cases = <<>>
    /\ case = NoCase
    /\ Gorig = NoGraph
    /\ expCaseLog = <<>>
    /\ lastCaseRow = NoRow
IdleTrial ==
    /\ seedNode = -1
    /\ agents = {}
    /\ madeChange = FALSE
    /\ rounds = 0
    /\ roundStart = {}
    /\ lastEval = NoEval
IdleRecord ==
    /\ trial = 0
    /\ wpp = <<<<>>, <<>>>>
    /\ WPP_CACHE = <<>>
    /\ stats = [peripheralDiffusion |-> Data, peripheralDensity |-> Data,
                coreDiffusion |-> Data]
    /\ expTrialLog = <<>>
    /\ lastTrialRow = NoRow

\* nothing has been created under outFilePath: no directory, no log file,
\* no network image (an image is named by pties, Ai and the trial number)
NoFiles == [dir |-> FALSE, logs |-> FALSE, dots |-> {}, pngs |-> {}]

\* the keys of GRAPH_FILTERS
GRAPH_FILTERS == {"all", "none", "wpp"}

\* GRAPH_FILTERS[kind](targetSegment=targetSegment)(G): TrueFilter,
\* FalseFilter, or WPPFilter with its thresholds of 1, which analyses G
\* again (through the cache) with the default proportion
graphFilter(kind, cache, graphId, g, targetSegment) ==
    IF kind = "all" THEN TRUE
    ELSE IF kind = "none" THEN FALSE
    ELSE LET r == findWeaknessesAndPressurePoints(cache, graphId, g,
                                                  defaultProportion,
                                                  targetSegment).result
         IN  Len(r[1]) >= 1 \/ Len(r[2]) >= 1

IdleHarness ==
    /\ dataObj = Data
    /\ observed = <<>>
    /\ edits = 0

trialLoopContinues_offByOne(t, trials) == t < trials

\* line 151: the condition of "while trial<=trials"
trialLoopContinues(t, trials) == t <= trials

\* lines 154-176: copy the case's network, draw I, set A, clear adopted and
\* influence, seed one adopter; choice() raises IndexError on an empty list
StartTrial ==
    /\ pc = "trial_loop"
    /\ trialLoopContinues(trial, params.trials)
    /\ \E Ival \in [Gorig.nodes -> IValues] :
          LET g == initTrialGraph(Gorig, Ival, case.Ai)
              candidates == seedCandidates(g, params.trickleDirection)
          IN  \/ /\ candidates = {}
                 /\ G' = g
                 /\ err' = "IndexError"
                 /\ pc' = "failed"
                 /\ UNCHANGED seedNode
              \/ \E s \in candidates :
                    /\ G' = [g EXCEPT !.node[s].adopted = TRUE]
                    /\ seedNode' = s
                    /\ pc' = "round_start"
                    /\ UNCHANGED err
    /\ rounds' = 0
    /\ roundStart' = {}
    /\ agents' = {}
    /\ madeChange' = FALSE
    /\ lastEval' = NoEval
    /\ UNCHANGED <<params, genVars, caseVars, recordVars>>
    /\ UNCHANGED harnessVars
    /\ UNCHANGED outFiles

\* lines 179-193: a round starts with the agents that have not adopted, in
\* shuffled order (the order is resolved when the next agent is taken)
StartRound ==
    /\ pc = "round_start"
    /\ agents' = agentsOfRound(G)
    /\ madeChange' = FALSE
    /\ rounds' = rounds + 1
    /\ roundStart' = adoptedNodes(G)
    /\ pc' = "evaluate"
    /\ UNCHANGED <<err, params, genVars, caseVars, G, seedNode, lastEval,
                   recordVars>>
    /\ UNCHANGED harnessVars
    /\ UNCHANGED outFiles

\* lines 194-209: the next agent of the shuffled list is evaluated
Evaluate ==
    /\ pc = "evaluate"
    /\ \E a \in agents :
          /\ agents' = agents \ {a}
          /\ lastEval' = [node |-> a,
                          adoptedNeighbors |-> adoptedNeighborsOf(G, a),
                          Bik |-> BikOf(G, a),
                          adopts |-> willAdopt(G, a)]
          /\ IF willAdopt(G, a)
             THEN /\ G' = [G EXCEPT !.node[a].adopted = TRUE,
                                    !.node[a].influence = adoptedNeighborsOf(G, a)]
                  /\ madeChange' = TRUE
             ELSE UNCHANGED <<G, madeChange>>
    /\ UNCHANGED <<pc, err, params, genVars, caseVars, seedNode, rounds,
                   roundStart, recordVars>>
    /\ UNCHANGED harnessVars
    /\ UNCHANGED outFiles

\* lines 211-213: the round is over; the loop ends when nothing changed
EndRound ==
    /\ pc = "evaluate"
    /\ agents = {}
    /\ pc' = IF loopEnds(madeChange) THEN "analyze" ELSE "round_start"
    /\ UNCHANGED <<err, params, genVars, caseVars, trialVars, recordVars>>
    /\ UNCHANGED harnessVars
    /\ UNCHANGED outFiles

\* lines 215-218: findWeaknessesAndPressurePoints(G, targetSegment=...);
\* the trial's graph object is identified by the trial number
FindWPP ==
    /\ pc = "analyze"
    /\ LET targetSegment == targetSegmentOf(params.trickleDirection)
           cacheKey == <<trial, defaultProportion, targetSegment>>
       IN  IF cacheKey \in DOMAIN WPP_CACHE
           THEN /\ wpp' = WPP_CACHE[cacheKey]
                /\ UNCHANGED <<G, WPP_CACHE>>
           ELSE LET r == computeWPP(G, defaultProportion, targetSegment)
                IN  /\ wpp' = r.result
                    /\ G' = r.G
                    /\ WPP_CACHE' = (cacheKey :> r.result) @@ WPP_CACHE
    /\ pc' = "record"
    /\ UNCHANGED <<err, params, genVars, caseVars, seedNode, agents,
                   madeChange, rounds, roundStart, lastEval, trial, stats,
                   expTrialLog, lastTrialRow>>
    /\ UNCHANGED harnessVars
    /\ UNCHANGED outFiles

\* lines 220-248: save the network images the filters let through, count
\* the adopters, write the trial row, feed the three accumulators (a
\* division by an empty segment raises ZeroDivisionError after the row is
\* written), clear the analysis cache, next trial
RecordTrial ==
    /\ pc = "record"
    /\ LET targetSegment == targetSegmentOf(params.trickleDirection)
           image == <<case.pties, case.Ai, trial>>
           drawing == params.pngs # "none" \/ params.dots # "none"
           dotFilter == graphFilter(params.dots, WPP_CACHE, trial, G, targetSegment)
           pngFilter == graphFilter(params.pngs, WPP_CACHE, trial, G, targetSegment)
       IN  outFiles' = [outFiles EXCEPT
                          !.dots = IF drawing /\ dotFilter THEN @ \cup {image} ELSE @,
                          !.pngs = IF drawing /\ pngFilter THEN @ \cup {image} ELSE @]
    /\ LET coreNodes == coreNodesOf(G)
           periphNodes == periphNodesOf(G)
           numCoreAdopters == Cardinality({a \in coreNodes : G.node[a].adopted})
           numPeriphAdopters == Cardinality({a \in periphNodes : G.node[a].adopted})
           totalPossiblePeriphTies == possibleTies(params.numberOfNodes, numCoreNodes)[3]
           row == <<case.pties, case.Ai, trial, numCoreAdopters,
                    Cardinality(coreNodes), numPeriphAdopters,
                    Cardinality(periphNodes), Len(wpp[1]), Len(wpp[2])>>
           s1 == [stats EXCEPT !.peripheralDiffusion =
                     addDatum(@, Norm(<<numPeriphAdopters, Cardinality(periphNodes)>>))]
           s2 == [s1 EXCEPT !.peripheralDensity =
                     addDatum(@, Norm(<<case.pties, totalPossiblePeriphTies>>))]
           s3 == [s2 EXCEPT !.coreDiffusion =
                     addDatum(@, Norm(<<numCoreAdopters, Cardinality(coreNodes)>>))]
       IN  /\ expTrialLog' = Append(expTrialLog, <<row[1], row[2], row[3]>>)
           /\ lastTrialRow' = row
           /\ IF Cardinality(periphNodes) = 0
              THEN /\ err' = "ZeroDivisionError"
                   /\ pc' = "failed"
                   /\ UNCHANGED <<stats, WPP_CACHE, trial>>
              ELSE IF totalPossiblePeriphTies = 0
              THEN /\ err' = "ZeroDivisionError"
                   /\ pc' = "failed"
                   /\ stats' = s1
                   /\ UNCHANGED <<WPP_CACHE, trial>>
              ELSE IF Cardinality(coreNodes) = 0
              THEN /\ err' = "ZeroDivisionError"
                   /\ pc' = "failed"
                   /\ stats' = s2
                   /\ UNCHANGED <<WPP_CACHE, trial>>
              ELSE /\ stats' = s3
                   /\ WPP_CACHE' = clearWPPCache(WPP_CACHE)
                   /\ trial' = trial + 1
                   /\ pc' = "trial_loop"
                   /\ UNCHANGED err
    /\ UNCHANGED <<params, genVars, caseVars, trialVars, wpp>>
    /\ UNCHANGED harnessVars

\* lines 83-138: the number of core nodes, the output directory, the two
\* graph filters (KeyError for an unknown kind), the two log files and the
\* list of cases
Configure ==
    /\ pc = "start"
    /\ LET n == roundToInt(<<params.numberOfNodes * params.cpRatio[1],
                             params.cpRatio[2]>>)
           totalPossiblePeriphTies == possibleTies(params.numberOfNodes, n)[3]
           peripheryTies_i == xrange0(totalPossiblePeriphTies, tieInterval)
       IN  /\ numCoreNodes' = n
           /\ IF params.dots \notin GRAPH_FILTERS \/ params.pngs \notin GRAPH_FILTERS
              THEN /\ outFiles' = [outFiles EXCEPT !.dir = TRUE]
                   /\ err' = "KeyError"
                   /\ pc' = "failed"
                   /\ UNCHANGED cases
              ELSE /\ outFiles' = [outFiles EXCEPT !.dir = TRUE, !.logs = TRUE]
                   /\ cases' = product(peripheryTies_i, A_i)
                   /\ pc' = "case_loop"
                   /\ UNCHANGED err
    /\ UNCHANGED <<params, genVars, case, Gorig, expCaseLog, lastCaseRow,
                   trialVars, recordVars>>
    /\ UNCHANGED harnessVars

\* lines 141-150: the next case starts with fresh accumulators and a newly
\* generated network
NextCase ==
    /\ pc = "case_loop"
    /\ cases # <<>>
    /\ case' = [pties |-> Head(cases)[1], Ai |-> Head(cases)[2]]
    /\ cases' = Tail(cases)
    /\ stats' = [peripheralDiffusion |-> Data, peripheralDensity |-> Data,
                 coreDiffusion |-> Data]
    /\ \E out \in generateARCorePeriph(numCoreNodes,
                                       params.numberOfNodes - numCoreNodes,
                                       Head(cases)[1]) :
          /\ err' = out.err
          /\ Gorig' = out.G
          /\ pc' = IF out.err = "none" THEN "trial_loop" ELSE "failed"
          /\ trial' = IF out.err = "none" THEN 1 ELSE trial
    /\ UNCHANGED <<params, genVars, numCoreNodes, expCaseLog, lastCaseRow,
                   trialVars, wpp, WPP_CACHE, expTrialLog, lastTrialRow>>
    /\ UNCHANGED harnessVars
    /\ UNCHANGED outFiles

\* lines 250-256: after the last trial of a case its averages are logged
EndCase ==
    /\ pc = "trial_loop"
    /\ ~trialLoopContinues(trial, params.trials)
    /\ expCaseLog' = Append(expCaseLog, case.Ai)
    /\ lastCaseRow' = <<case.Ai, average(stats.peripheralDensity),
                        average(stats.peripheralDiffusion),
                        average(stats.coreDiffusion)>>
    /\ pc' = "case_loop"
    /\ UNCHANGED <<err, params, genVars, numCoreNodes, cases, case, Gorig,
                   trialVars, recordVars>>
    /\ UNCHANGED harnessVars
    /\ UNCHANGED outFiles

\* lines 258-272: the sweep is over; the logs are closed and handed to the
\* plotting and regression collaborators
Finish ==
    /\ pc = "case_loop"
    /\ cases = <<>>
    /\ pc' = "done"
    /\ UNCHANGED <<err, params, genVars, caseVars, trialVars, recordVars>>
    /\ UNCHANGED harnessVars
    /\ UNCHANGED outFiles

\* sample of the cpRatio argument, each in [0, 1]
CpRatios == {<<0, 1>>, <<1, 3>>, <<1, 2>>, <<1, 1>>}

Init ==
    /\ pc = "start"
    /\ err = "none"
    /\ params \in [trickleDirection : {"down", "up"},
                   numberOfNodes : 0..MaxNumberOfNodes,
                   trials : 0..MaxTrials,
                   cpRatio : CpRatios,
                   dots : {"none"},
                   pngs : {"none"}]
    /\ IdleGen
    /\ IdleCase
    /\ G = NoGraph
    /\ IdleTrial
    /\ IdleRecord
    /\ IdleHarness
    /\ outFiles = NoFiles

Next ==
    \/ Configure
    \/ NextCase
    \/ StartTrial
    \/ StartRound
    \/ Evaluate
    \/ EndRound
    \/ FindWPP
    \/ RecordTrial
    \/ EndCase
    \/ Finish

Spec == Init /\ [][Next]_vars

---------------------------------------------------------------------------
(* The driver called with any configuration, valid or not: an unknown
   trickleDirection, unknown dots or pngs kinds, a negative numberOfNodes *)

TrickleDirections == {"down", "up", "sideways"}
FilterKinds == {"all", "none", "wpp", "bogus"}

ConfigInit ==
    /\ pc = "start"
    /\ err = "none"
    /\ params \in [trickleDirection : TrickleDirections,
                   numberOfNodes : (-MaxNegativeNodes)..MaxNumberOfNodes,
                   trials : {1},
                   cpRatio : CpRatios,
                   dots : FilterKinds,
                   pngs : FilterKinds]
    /\ IdleGen
    /\ IdleCase
    /\ G = NoGraph
    /\ IdleTrial
    /\ IdleRecord
    /\ IdleHarness
    /\ outFiles = NoFiles

ConfigNext ==
    \/ Configure
    \/ NextCase
    \/ StartTrial
    \/ StartRound
    \/ Evaluate
    \/ EndRound
    \/ FindWPP
    \/ RecordTrial
    \/ EndCase
    \/ Finish

ConfigSpec == ConfigInit /\ [][ConfigNext]_vars

---------------------------------------------------------------------------
(* The layout of the sweep (lines 83-138) for larger populations: the list
   of cases is computed and left for the case loop *)

SweepInit ==
    /\ pc = "start"
    /\ err = "none"
    /\ params \in [trickleDirection : {"down", "up"},
                   numberOfNodes : 0..MaxSweepNodes,
                   trials : 0..MaxTrials,
                   cpRatio : CpRatios,
                   dots : {"none"},
                   pngs : {"none"}]
    /\ IdleGen
    /\ IdleCase
    /\ G = NoGraph
    /\ IdleTrial
    /\ IdleRecord
    /\ IdleHarness
    /\ outFiles = NoFiles

SweepNext == Configure

SweepSpec == SweepInit /\ [][SweepNext]_vars

---------------------------------------------------------------------------
(* One cell of the sweep, its trials run one after the other on the base
   network generated for it (lines 150-256); small tie counts stand for
   the multiples of 5 of larger sweeps *)

\* numCore, numPeriph and pties of the cells: the shapes whose sweep has a
\* cell, with any tie count generateARCorePeriph accepts for them
CellShapes ==
    {x \in (0..MaxCellNodes) \X (0..MaxCellNodes) \X (0..MaxCellPties) :
       /\ x[1] + x[2] >= 1
       /\ x[1] + x[2] <= MaxCellNodes
       /\ possibleTies(x[1] + x[2], x[1])[3] >= 1
       /\ x[3] <= possibleTies(x[1] + x[2], x[1])[3]}

CellInit ==
    /\ pc = "trial_loop"
    /\ err = "none"
    /\ \E x \in CellShapes :
          /\ params \in [trickleDirection : {"down", "up"},
                         numberOfNodes : {x[1] + x[2]},
                         trials : {2},
                         cpRatio : {r \in CpRatios :
                                      roundToInt(<<(x[1] + x[2]) * r[1], r[2]>>) = x[1]},
                         dots : {"none"},
                         pngs : {"none"}]
          /\ numCoreNodes = x[1]
          /\ \E i \in DOMAIN A_i : case = [pties |-> x[3], Ai |-> A_i[i]]
          /\ \E out \in generateARCorePeriph(x[1], x[2], x[3]) :
                out.err = "none" /\ Gorig = out.G
    /\ IdleGen
    /\ cases = <<>>
    /\ expCaseLog = <<>>
    /\ lastCaseRow = NoRow
    /\ G = NoGraph
    /\ IdleTrial
    /\ trial = 1
    /\ wpp = <<<<>>, <<>>>>
    /\ WPP_CACHE = <<>>
    /\ stats = [peripheralDiffusion |-> Data, peripheralDensity |-> Data,
                coreDiffusion |-> Data]
    /\ expTrialLog = <<>>
    /\ lastTrialRow = NoRow
    /\ IdleHarness
    /\ outFiles = [NoFiles EXCEPT !.dir = TRUE, !.logs = TRUE]

CellNext ==
    \/ StartTrial
    \/ StartRound
    \/ Evaluate
    \/ EndRound
    \/ FindWPP
    \/ RecordTrial
    \/ EndCase

CellSpec == CellInit /\ [][CellNext]_vars

\* nxGen = DICorePeriphNxGenerator(numCore, numPeriph, pties)
GenConstruct ==
    /\ pc = "gen_construct"
    /\ LET e == GeneratorInitError(params.numCoreNodes, params.numPeriphNodes,
                                   params.pties)
       IN  \/ /\ e # "none"
              /\ err' = e
              /\ pc' = "gen_failed"
              /\ UNCHANGED nxGen
           \/ /\ e = "none"
              /\ nxGen' = [n |-> params.numCoreNodes + params.numPeriphNodes,
                           numCoreNodes |-> params.numCoreNodes,
                           numPeriphNodes |-> params.numPeriphNodes,
                           pties |-> params.pties]
              /\ pc' = "gen_ready"
              /\ UNCHANGED err
    /\ UNCHANGED <<params, calls, caseVars, trialVars, recordVars>>
    /\ UNCHANGED harnessVars
    /\ UNCHANGED outFiles

\* G = nxGen.next()
GenNextCall ==
    /\ pc = "gen_ready"
    /\ calls < MaxCalls
    /\ \E out \in generateARCorePeriph(nxGen.numCoreNodes, nxGen.numPeriphNodes,
                                       nxGen.pties) :
          /\ err' = out.err
          /\ G' = out.G
          /\ pc' = IF out.err = "none" THEN "gen_ready" ELSE "gen_failed"
    /\ calls' = calls + 1
    /\ UNCHANGED <<params, nxGen, caseVars, seedNode, agents, madeChange,
                   rounds, roundStart, lastEval, recordVars>>
    /\ UNCHANGED harnessVars
    /\ UNCHANGED outFiles

GenInit ==
    /\ pc = "gen_construct"
    /\ err = "none"
    /\ params \in [numCoreNodes : -1..MaxCore,
                   numPeriphNodes : -1..MaxPeriph,
                   pties : -1..MaxPties]
    /\ IdleGen
    /\ G = NoGraph
    /\ IdleCase
    /\ IdleTrial
    /\ IdleRecord
    /\ IdleHarness
    /\ outFiles = NoFiles

GenNext == GenConstruct \/ GenNextCall

GenSpec == GenInit /\ [][GenNext]_vars

---------------------------------------------------------------------------
(* CallSpec: generateARCorePeriph called directly, as disim.py 148-149 does *)

\* G = generateARCorePeriph(numCore, numPeriph, pties)
CallGenerate ==
    /\ pc = "call"
    /\ \E out \in generateARCorePeriph(params.numCoreNodes,
                                       params.numPeriphNodes, params.pties) :
          /\ err' = out.err
          /\ G' = out.G
          /\ pc' = IF out.err = "none" THEN "returned" ELSE "raised"
    /\ UNCHANGED <<params, genVars, caseVars, seedNode, agents, madeChange,
                   rounds, roundStart, lastEval, recordVars, harnessVars>>
    /\ UNCHANGED outFiles

CallInit ==
    /\ pc = "call"
    /\ err = "none"
    /\ params \in [numCoreNodes : -1..MaxCore,
                   numPeriphNodes : -1..MaxPeriph,
                   pties : -1..MaxPties]
    /\ IdleGen
    /\ G = NoGraph
    /\ IdleCase
    /\ IdleTrial
    /\ IdleRecord
    /\ IdleHarness
    /\ outFiles = NoFiles

CallNext == CallGenerate

CallSpec == CallInit /\ [][CallNext]_vars

---------------------------------------------------------------------------
(* AnalyzerSpec: findWeaknessesAndPressurePoints called directly on one    *)
(* network object, as test/test_graphsearch.py does, between changes of    *)
(* the network and clearWPPCache calls                                     *)

\* numCore of the hand-built network of the test
testNumCore == 4

\* the edges of the hand-built network of the test (lines 34-39)
testEdges ==
    {<<0, 5>>, <<1, 5>>, <<2, 5>>, <<3, 5>>, <<5, 6>>,
     <<0, 7>>, <<2, 7>>, <<6, 7>>,
     <<1, 8>>, <<6, 8>>} \cup combinations2(range(0, testNumCore))

\* the hand-built network of the test (lines 33-50); the attributes weak
\* and ppoint, absent until the analysis sets them, read FALSE
testGraph ==
    LET nodes == UNION {{e[1], e[2]} : e \in testEdges}
    IN  [nodes |-> nodes,
         edges |-> testEdges,
         node |-> [n \in nodes |->
                     [segments |-> IF n < testNumCore THEN <<"core">>
                                   ELSE <<"periphery">>,
                      I |-> IF n = 7 THEN <<1, 1>> ELSE <<-2, 1>>,
                      A |-> 3,
                      weak |-> FALSE,
                      ppoint |-> FALSE]]]

\* the values the attributes I and A take: those of the test
AnIValues == {<<-2, 1>>, <<1, 1>>}
AnAValues == {1, 3}

\* the proportion arguments: the default and the whole opposite segment
Proportions == {defaultProportion, <<1, 1>>}

\* the networks analysed: the one of the test, and small generated ones
\* with the attributes I and A set on every node, as the test sets them
AnNetworks ==
    {testGraph} \cup
    UNION {
      {initTrialGraph(out.G, [n \in out.G.nodes |-> v], 3) : v \in AnIValues} :
        out \in UNION {
          {o \in generateARCorePeriph(x[1], x[2], x[3]) : o.err = "none"} :
            x \in {y \in (0..MaxAnNodes) \X (0..MaxAnNodes) \X {0, 1} :
                     /\ y[1] + y[2] <= MaxAnNodes
                     /\ y[3] <= possibleTies(y[1] + y[2], y[1])[3]}}}

\* weaknesses, ppoints = findWeaknessesAndPressurePoints(G, proportion,
\* targetSegment), the proportion chosen call by call; the one network
\* object of the run has identity `trial`
AnCall ==
    /\ pc \in {"an_ready", "an_computed", "an_cached"}
    /\ calls < MaxAnalyses
    /\ \E proportion \in Proportions :
          LET r == findWeaknessesAndPressurePoints(WPP_CACHE, trial, G,
                                                   proportion,
                                                   params.targetSegment)
          IN  /\ params' = [params EXCEPT !.proportion = proportion]
              /\ wpp' = r.result
              /\ G' = r.G
              /\ WPP_CACHE' = r.cache
              /\ pc' = IF r.cached THEN "an_cached" ELSE "an_computed"
    /\ calls' = calls + 1
    /\ UNCHANGED <<err, nxGen, caseVars, seedNode, agents, madeChange, rounds,
                   roundStart, lastEval, trial, stats, expTrialLog,
                   lastTrialRow, dataObj, observed, edits>>
    /\ UNCHANGED outFiles

\* G.node[n]['I'] = v, after an analysis
AnSetI ==
    /\ pc \in {"an_computed", "an_cached"}
    /\ edits < MaxEdits
    /\ \E n \in G.nodes, v \in AnIValues :
          /\ G.node[n].I # v
          /\ G' = [G EXCEPT !.node[n].I = v]
    /\ edits' = edits + 1
    /\ pc' = "an_ready"
    /\ UNCHANGED <<err, params, genVars, caseVars, seedNode, agents,
                   madeChange, rounds, roundStart, lastEval, recordVars,
                   dataObj, observed>>
    /\ UNCHANGED outFiles

\* G.node[n]['A'] = v, after an analysis
AnSetA ==
    /\ pc \in {"an_computed", "an_cached"}
    /\ edits < MaxEdits
    /\ \E n \in G.nodes, v \in AnAValues :
          /\ G.node[n].A # v
          /\ G' = [G EXCEPT !.node[n].A = v]
    /\ edits' = edits + 1
    /\ pc' = "an_ready"
    /\ UNCHANGED <<err, params, genVars, caseVars, seedNode, agents,
                   madeChange, rounds, roundStart, lastEval, recordVars,
                   dataObj, observed>>
    /\ UNCHANGED outFiles

\* G.add_edge(a, b) between two nodes not yet joined, after an analysis
AnAddEdge ==
    /\ pc \in {"an_computed", "an_cached"}
    /\ edits < MaxEdits
    /\ \E a \in G.nodes, b \in G.nodes :
          /\ a < b
          /\ b \notin neighbors(G, a)
          /\ G' = [G EXCEPT !.edges = @ \cup {<<a, b>>}]
    /\ edits' = edits + 1
    /\ pc' = "an_ready"
    /\ UNCHANGED <<err, params, genVars, caseVars, seedNode, agents,
                   madeChange, rounds, roundStart, lastEval, recordVars,
                   dataObj, observed>>
    /\ UNCHANGED outFiles

\* clearWPPCache()
AnClear ==
    /\ pc \in {"an_ready", "an_computed", "an_cached"}
    /\ WPP_CACHE' = clearWPPCache(WPP_CACHE)
    /\ pc' = "an_ready"
    /\ UNCHANGED <<err, params, genVars, caseVars, trialVars, trial, wpp,
                   stats, expTrialLog, lastTrialRow, harnessVars>>
    /\ UNCHANGED outFiles

AnInit ==
    /\ pc = "an_ready"
    /\ err = "none"
    /\ params \in [proportion : {defaultProportion},
                   targetSegment : {"core", "periphery"}]
    /\ IdleGen
    /\ IdleCase
    /\ G \in AnNetworks
    /\ IdleTrial
    /\ IdleRecord
    /\ IdleHarness
    /\ outFiles = NoFiles

AnNext == AnCall \/ AnSetI \/ AnSetA \/ AnAddEdge \/ AnClear

AnalyzerSpec == AnInit /\ [][AnNext]_vars

---------------------------------------------------------------------------
(* DataSpec: one Data accumulator fed observation by observation *)

\* sample of the observations: negative, zero, positive
Observations == {<<-1, 1>>, <<0, 1>>, <<1, 2>>, <<2, 1>>, <<4, 1>>}

\* d.addDatum(val)
AddDatum ==
    /\ pc = "data"
    /\ Len(observed) < MaxObservations
    /\ \E val \in Observations :
          /\ dataObj' = addDatum(dataObj, val)
          /\ observed' = Append(observed, val)
    /\ UNCHANGED <<pc, err, params, genVars, caseVars, trialVars, recordVars,
                   edits>>
    /\ UNCHANGED outFiles

DataInit ==
    /\ pc = "data"
    /\ err = "none"
    /\ params = <<>>
    /\ IdleGen
    /\ IdleCase
    /\ G = NoGraph
    /\ IdleTrial
    /\ IdleRecord
    /\ IdleHarness
    /\ outFiles = NoFiles

DataNext == AddDatum

DataSpec == DataInit /\ [][DataNext]_vars

---------------------------------------------------------------------------
(* SimSpec: one trial on any network generateARCorePeriph can return *)

\* the networks generateARCorePeriph returns for feasible arguments
SimNetworks ==
    UNION {
      {out.G : out \in {o \in generateARCorePeriph(c, p, t) : o.err = "none"}} :
        <<c, p, t>> \in
          {x \in (0..MaxSimNodes) \X (0..MaxSimNodes) \X (0..MaxSimPties) :
             /\ x[1] + x[2] <= MaxSimNodes
             /\ x[3] <= possibleTies(x[1] + x[2], x[1])[3]}}

SimInit ==
    /\ pc = "trial_loop"
    /\ err = "none"
    /\ params \in [trickleDirection : {"down", "up"}, trials : {1},
                   dots : {"none"}, pngs : {"none"}]
    /\ IdleGen
    /\ numCoreNodes = -1
    /\ cases = <<>>
    /\ \E i \in DOMAIN A_i : case = [pties |-> -1, Ai |-> A_i[i]]
    /\ Gorig \in SimNetworks
    /\ expCaseLog = <<>>
    /\ lastCaseRow = NoRow
    /\ G = NoGraph
    /\ IdleTrial
    /\ trial = 1
    /\ wpp = <<<<>>, <<>>>>
    /\ WPP_CACHE = <<>>
    /\ stats = [peripheralDiffusion |-> Data, peripheralDensity |-> Data,
                coreDiffusion |-> Data]
    /\ expTrialLog = <<>>
    /\ lastTrialRow = NoRow
    /\ IdleHarness
    /\ outFiles = [NoFiles EXCEPT !.dir = TRUE, !.logs = TRUE]

SimNext == StartTrial \/ StartRound \/ Evaluate \/ EndRound \/ FindWPP

SimSpec == SimInit /\ [][SimNext]_vars

---------------------------------------------------------------------------
(* Claims about one trial (SimSpec) *)

\* the positions of the round loop, and those after it has halted
InRoundLoop == pc \in {"round_start", "evaluate"}
Halted == pc \in {"analyze", "record"}

\* the number of adopted neighbours of a, counted on the edges directly
adoptedDegree(g, a) ==
    Cardinality({b \in g.nodes : /\ b # a
                                 /\ g.node[b].adopted
                                 /\ (<<a, b>> \in g.edges \/ <<b, a>> \in g.edges)})

\* I_a + A_a * k / N > 0, cleared of denominators (N > 0, I_a[2] > 0)
pressureExceeds(g, a, k) ==
    g.node[a].I[1] * Cardinality(g.nodes) + g.node[a].A * k * g.node[a].I[2] > 0

\* C1: the round loop runs at most N rounds (N the number of nodes, the
\* final round without change included), and every round after which the
\* loop continues has adopted at least one new node.
C1_RoundBound ==
    /\ (InRoundLoop \/ Halted) => rounds <= number_of_nodes(G)
    /\ (pc = "round_start" /\ rounds >= 1) =>
          /\ roundStart \subseteq adoptedNodes(G)
          /\ roundStart # adoptedNodes(G)

C1_Witness ==
    /\ pc = "analyze"
    /\ number_of_nodes(G) = 3
    /\ rounds = 3

\* C2: within a trial a node whose adopted flag is true keeps it: no step
\* of the round loop or of the boundary analysis sets it back to false.
C2_AdoptionMonotone ==
    [][(InRoundLoop \/ Halted) =>
          \A n \in G.nodes : G.node[n].adopted => G'.node[n].adopted]_vars

C2_Witness ==
    /\ pc = "record"
    /\ Cardinality(adoptedNodes(G)) = 3
    /\ Len(wpp[1]) + Len(wpp[2]) > 0

\* C3: when the round loop has halted, no node that is still not adopted
\* has I + A * (adopted neighbours) / N > 0 on the final adoption state.
C3_FixedPoint ==
    Halted =>
        \A a \in G.nodes :
            ~G.node[a].adopted => ~pressureExceeds(G, a, adoptedDegree(G, a))

C3_Witness ==
    /\ pc = "analyze"
    /\ rounds >= 2
    /\ \E a \in G.nodes : ~G.node[a].adopted /\ adoptedDegree(G, a) >= 1

\* C4: a node becomes adopted in the round loop only at a step where
\* I + A * (adopted neighbours) / N > 0 on the adoption state of that
\* moment; that step sets its influence to exactly its adopted neighbours
\* of that moment, and no other step of the trial changes an influence.
C4_AdoptionStep ==
    [][(InRoundLoop \/ Halted) =>
          \A n \in G.nodes :
             IF ~G.node[n].adopted /\ G'.node[n].adopted
             THEN /\ pc = "evaluate"
                  /\ pressureExceeds(G, n, adoptedDegree(G, n))
                  /\ G'.node[n].influence =
                        {b \in G.nodes : /\ G.node[b].adopted
                                         /\ (<<n, b>> \in G.edges \/ <<b, n>> \in G.edges)}
             ELSE G'.node[n].influence = G.node[n].influence]_vars

C4_Witness ==
    /\ pc = "evaluate"
    /\ lastEval.adopts
    /\ Cardinality(G.node[lastEval.node].influence) = 2
    /\ \E n \in G.nodes : n # lastEval.node /\ n # seedNode /\ G.node[n].adopted

RECURSIVE Closure(_, _)
\* the least set of nodes that holds S and every node whose pressure signal
\* exceeds 0 when exactly the nodes of the set are adopted
Closure(g, S) ==
    LET T == S \cup {a \in g.nodes :
                       LET k == Cardinality({b \in S : b # a /\ (<<a, b>> \in g.edges
                                                        \/ <<b, a>> \in g.edges)})
                       IN  pressureExceeds(g, a, k)}
    IN  IF T = S THEN S ELSE Closure(g, T)

\* C5: for a fixed network, fixed I values, fixed ambiguity A >= 0 and a
\* fixed seed, the number of adopted nodes when the loop halts is a function
\* of these alone (the size of the closure of the seed under the adoption
\* rule), whatever the activation order of any round was.
C5_OrderInvariantCount ==
    Halted => Cardinality(adoptedNodes(G)) = Cardinality(Closure(G, {seedNode}))

C5_Witness ==
    /\ pc = "analyze"
    /\ rounds = 3
    /\ Cardinality(adoptedNodes(G)) = 3
    /\ \E n \in G.nodes : G.node[n].I[1] < 0 /\ Cardinality(G.node[n].influence) = 1

---------------------------------------------------------------------------
(* Claims about the experiment driver (Spec) *)

\* a trial has been started (its working network exists)
TrialStarted == pc \in {"round_start", "evaluate", "analyze", "record", "failed"}

\* the segment the seed is to come from, read off the segment tags
seedSegmentNodes ==
    {n \in G.nodes :
        IF params.trickleDirection = "down"
        THEN G.node[n].segments = <<"core">>
        ELSE G.node[n].segments = <<"periphery">>}

\* C6: at the start of the round loop of every trial, the first and the
\* later ones, exactly one node is adopted, it is a core node for "down"
\* and a periphery node for "up", and every influence is empty.
C6_TrialStartState ==
    (pc = "round_start" /\ rounds = 0) =>
        /\ Cardinality({n \in G.nodes : G.node[n].adopted}) = 1
        /\ \A n \in G.nodes : G.node[n].adopted => n \in seedSegmentNodes
        /\ \A n \in G.nodes : G.node[n].influence = {}

C6_Witness ==
    /\ pc = "round_start"
    /\ rounds = 0
    /\ trial = 2
    /\ params.trickleDirection = "up"
    /\ lastTrialRow # NoRow
    /\ lastTrialRow[4] + lastTrialRow[6] = 2

\* C7: when the segment to seed from is empty the trial fails with an
\* error before any round is run, and no row is written for that trial.
C7_EmptySeedSegment ==
    (TrialStarted /\ err # "ValueError" /\ seedSegmentNodes = {}) =>
        /\ pc = "failed"
        /\ err = "IndexError"
        /\ rounds = 0
        /\ \A i \in 1..Len(expTrialLog) :
              expTrialLog[i] # <<case.pties, case.Ai, trial>>

C7_Witness ==
    /\ pc = "failed"
    /\ err = "IndexError"
    /\ params.trickleDirection = "down"
    /\ number_of_nodes(G) = 2
    /\ coreNodesOf(G) = {}

---------------------------------------------------------------------------
(* Claims about the generator (GenSpec) *)

\* a network has been returned by next()
Generated == pc = "gen_ready" /\ calls >= 1

\* C8: every network returned by next() for feasible arguments has
\* numCore + numPeriph nodes, numCore core nodes, numPeriph periphery nodes,
\* totalPossibleCoreTies + pties edges and pties edges incident to a
\* periphery node, on the first and on every later next() call.
C8_GeneratedCounts ==
    Generated =>
        /\ number_of_nodes(G) = params.numCoreNodes + params.numPeriphNodes
        /\ Cardinality(coreNodesOf(G)) = params.numCoreNodes
        /\ Cardinality(periphNodesOf(G)) = params.numPeriphNodes
        /\ number_of_edges(G) =
              possibleTies(params.numCoreNodes + params.numPeriphNodes,
                           params.numCoreNodes)[2] + params.pties
        /\ Cardinality(edgesOf(G, periphNodesOf(G))) = params.pties

C8_Witness ==
    /\ Generated
    /\ calls = MaxCalls
    /\ params.numCoreNodes = 2
    /\ params.numPeriphNodes = 2
    /\ params.pties = 2

\* C9: no generated network holds two edges between the same two nodes:
\* the tuples (a, b) and (b, a) are never both added.
C9_DistinctUnorderedPairs ==
    Generated => \A e \in G.edges : <<e[2], e[1]>> \notin G.edges

\* C10: the constructor fails, and yields no generator, whenever an
\* argument is negative or pties exceeds possibleTies(n, numCore)[2]; it
\* succeeds for every pties from 0 up to and including that bound.
C10_ConstructorChecks ==
    LET c == params.numCoreNodes
        p == params.numPeriphNodes
        t == params.pties
        infeasible == c < 0 \/ p < 0 \/ t < 0 \/ t > possibleTies(c + p, c)[3]
    IN  pc # "gen_construct" =>
           /\ infeasible => /\ pc = "gen_failed"
                            /\ err # "none"
                            /\ nxGen = NoGenerator
                            /\ calls = 0
           /\ ~infeasible => /\ err = "none"
                             /\ pc = "gen_ready"
                             /\ nxGen.numCoreNodes = c
                             /\ nxGen.numPeriphNodes = p
                             /\ nxGen.pties = t

C10_Witness ==
    /\ pc = "gen_failed"
    /\ err = "Exception"
    /\ params.numCoreNodes = 1
    /\ params.numPeriphNodes = 1
    /\ params.pties = possibleTies(2, 1)[3] + 1

---------------------------------------------------------------------------
(* Claims about generateARCorePeriph called directly (CallSpec) *)

\* the call has ended, by a return or by an exception
CallEnded == pc \in {"returned", "raised"}

\* the unordered pairs of distinct nodes of S
unorderedPairs(S) == {{a, b} : <<a, b>> \in {x \in S \X S : x[1] # x[2]}}

\* the edges of g between a and b, whatever their direction
edgesBetween(g, a, b) == {e \in g.edges : {e[1], e[2]} = {a, b}}

\* C11: generateARCorePeriph(numCore, numPeriph, pties) with numCore >= 0
\* and numPeriph >= 0 fails with an error and returns no network whenever
\* pties exceeds totalPossibleTies(n) - totalPossibleCoreTies(numCore).
C11_DirectCallBound ==
    LET c == params.numCoreNodes
        p == params.numPeriphNodes
    IN  (CallEnded /\ c >= 0 /\ p >= 0
           /\ params.pties > possibleTies(c + p, c)[3]) =>
            /\ pc = "raised"
            /\ err # "none"
            /\ G = NoGraph

\* C12: the population the peripheral ties are sampled from has exactly
\* possibleTies(n, numCore)[2] elements, one per unordered pair of distinct
\* nodes with a periphery endpoint, and possibleTies returns a triple with
\* total = core + peripheral and peripheral >= 0.
C12_PopulationSize ==
    LET c == params.numCoreNodes
        p == params.numPeriphNodes
        population == allPotentialEdges(c, p)
        ties == possibleTies(c + p, c)
    IN  (pc = "returned") =>
            /\ Cardinality(population) = ties[3]
            /\ {{e[1], e[2]} : e \in population} =
                  {s \in unorderedPairs(0..(c + p - 1)) : \E a \in s : a >= c}
            /\ ties[1] = ties[2] + ties[3]
            /\ ties[3] >= 0

\* C13: for every numCore >= 0 and numPeriph >= 0, zero included, the call
\* with pties = 0 succeeds, the edges of the result are exactly the pairs of
\* distinct core nodes, and every periphery node is isolated.
C13_ZeroPeripheralTies ==
    LET c == params.numCoreNodes
        p == params.numPeriphNodes
    IN  (CallEnded /\ c >= 0 /\ p >= 0 /\ params.pties = 0) =>
            /\ pc = "returned"
            /\ err = "none"
            /\ G.nodes = 0..(c + p - 1)
            /\ {{e[1], e[2]} : e \in G.edges} = unorderedPairs(0..(c - 1))
            /\ Cardinality(G.edges) = Cardinality(unorderedPairs(0..(c - 1)))
            /\ \A n \in c..(c + p - 1) :
                  \A e \in G.edges : e[1] # n /\ e[2] # n

C13_Witness ==
    /\ pc = "returned"
    /\ params.numCoreNodes = 2
    /\ params.numPeriphNodes = 0
    /\ params.pties = 0
    /\ number_of_edges(G) = 1

\* C14: in every generated network every pair of distinct core nodes is
\* joined by exactly one edge, every other tie has at least one periphery
\* endpoint, and no edge joins a node to itself.
C14_CoreComplete ==
    LET c == params.numCoreNodes
    IN  (pc = "returned") =>
            /\ \A a \in 0..(c - 1) : \A b \in 0..(c - 1) :
                  a # b => Cardinality(edgesBetween(G, a, b)) = 1
            /\ Cardinality({e \in G.edges : e[1] < c /\ e[2] < c}) =
                  Cardinality(unorderedPairs(0..(c - 1)))
            /\ Cardinality({e \in G.edges : e[1] >= c \/ e[2] >= c}) = params.pties
            /\ \A e \in G.edges : e[1] # e[2]

C14_Witness ==
    /\ pc = "returned"
    /\ params.numCoreNodes = 2
    /\ params.numPeriphNodes = 2
    /\ params.pties = 2
    /\ \E e \in G.edges : e[1] >= 2 /\ e[2] >= 2
    /\ \E e \in G.edges : e[1] >= 2 /\ e[2] < 2

\* C15: in every network generateARCorePeriph returns each node carries
\* exactly one segment tag, 'core' for the ids 0..numCore-1 and 'periphery'
\* for the ids numCore..n-1, and has adopted = False, an empty influence,
\* weak = False and ppoint = False.
C15_NodeAttributes ==
    LET c == params.numCoreNodes
        p == params.numPeriphNodes
    IN  (pc = "returned") =>
            /\ G.nodes = 0..(c + p - 1)
            /\ \A n \in G.nodes :
                  /\ Len(G.node[n].segments) = 1
                  /\ G.node[n].segments[1] = IF n < c THEN "core" ELSE "periphery"
                  /\ G.node[n].adopted = FALSE
                  /\ G.node[n].influence = {}
                  /\ G.node[n].weak = FALSE
                  /\ G.node[n].ppoint = FALSE

C15_Witness ==
    /\ pc = "returned"
    /\ params.numCoreNodes = 1
    /\ params.numPeriphNodes = 2
    /\ params.pties = 1
    /\ G.node[0].segments = <<"core">>
    /\ G.node[1].segments = <<"periphery">>

---------------------------------------------------------------------------
(* Claims about the boundary analysis called directly (AnalyzerSpec) *)

\* a call has just returned; Computed: it was answered by a computation
AnalysisReturned == pc \in {"an_computed", "an_cached"}
AnalysisComputed == pc = "an_computed"

\* node a carries the segment tag seg
taggedWith(g, a, seg) ==
    \E i \in DOMAIN g.node[a].segments : g.node[a].segments[i] = seg

\* the number of nodes not tagged seg that a is tied to, read off the edges
crossDegree(g, a, seg) ==
    Cardinality({b \in g.nodes :
                    /\ <<a, b>> \in g.edges \/ <<b, a>> \in g.edges
                    /\ ~taggedWith(g, b, seg)})

\* the network is the hand-built one of the test, unchanged
OnTestGraph ==
    /\ G.nodes = testGraph.nodes
    /\ G.edges = testGraph.edges
    /\ edits = 0

\* a list of node ids in ascending order without repetition
Ascending(q) == \A i \in DOMAIN q : \A j \in DOMAIN q : i < j => q[i] < q[j]

\* C16: the weaknesses returned are exactly the nodes a of targetSegment
\* with at least one neighbour outside targetSegment and I_a + A_a / N > 0,
\* in node order without repetition; on the hand-built network of the test
\* the result is [7].
C16_Weaknesses ==
    AnalysisComputed =>
        LET seg == params.targetSegment
            N == Cardinality(G.nodes)
        IN  /\ Ascending(wpp[1])
            /\ {wpp[1][i] : i \in DOMAIN wpp[1]} =
                  {a \in G.nodes :
                      /\ taggedWith(G, a, seg)
                      /\ crossDegree(G, a, seg) >= 1
                      /\ G.node[a].I[1] * N + G.node[a].A * G.node[a].I[2] > 0}
            /\ (OnTestGraph /\ seg = "periphery") => wpp[1] = <<7>>

C16_Witness ==
    /\ AnalysisComputed
    /\ OnTestGraph
    /\ params.targetSegment = "periphery"
    /\ params.proportion = defaultProportion
    /\ calls = 1
    /\ wpp[1] = <<7>>
    /\ G.node[7].weak

\* C17: the pressure points returned are exactly the nodes a of
\* targetSegment whose number of neighbours outside targetSegment is at
\* least proportion * (N - |targetSegment|), whether or not a is a weakness;
\* on the hand-built network of the test the result is [5, 7].
C17_PressurePoints ==
    AnalysisComputed =>
        LET seg == params.targetSegment
            target == {a \in G.nodes : taggedWith(G, a, seg)}
            n_b == Cardinality(G.nodes) - Cardinality(target)
        IN  /\ {wpp[2][i] : i \in DOMAIN wpp[2]} =
                  {a \in target :
                      crossDegree(G, a, seg) * params.proportion[2] >=
                         params.proportion[1] * n_b}
            /\ (OnTestGraph /\ seg = "periphery"
                  /\ params.proportion = defaultProportion) =>
                  wpp[2] = <<5, 7>>

\* node 7 is both, 5 a pressure point only, 8 a weakness only, 6 neither
C17_Witness ==
    /\ AnalysisComputed
    /\ G.nodes = testGraph.nodes
    /\ params.targetSegment = "periphery"
    /\ params.proportion = defaultProportion
    /\ wpp = <<<<7, 8>>, <<5, 7>>>>

\* C18: every node reported as a pressure point has at least one tie to a
\* node of the opposite segment, for every network, targetSegment and
\* proportion, the networks with an empty opposite segment included.
C18_PressurePointHasCrossTie ==
    AnalysisComputed =>
        \A i \in DOMAIN wpp[2] :
            crossDegree(G, wpp[2][i], params.targetSegment) >= 1

\* C19: a call with ignoreCache = False returns the pair a fresh
\* recomputation on the network's current state returns, after any sequence
\* of calls, changes of I, A or the edges, and clearWPPCache calls.
C19_CacheTransparent ==
    AnalysisReturned =>
        wpp = computeWPP(G, params.proportion, params.targetSegment).result

---------------------------------------------------------------------------
(* Claims about the Data accumulator (DataSpec) *)

\* x = y and x <= y on rationals with positive denominators
RatEq(x, y) == x[1] * y[2] = y[1] * x[2]
RatLE(x, y) == x[1] * y[2] <= y[1] * x[2]

\* C20: after any non-empty sequence of addDatum calls with observations of
\* any sign, N is the number of calls, min the smallest observation and max
\* the largest observation.
C20_MinMaxCount ==
    observed # <<>> =>
        /\ dataObj.N = Len(observed)
        /\ \E i \in DOMAIN observed :
              /\ RatEq(dataObj.min, observed[i])
              /\ \A j \in DOMAIN observed : RatLE(observed[i], observed[j])
        /\ \E i \in DOMAIN observed :
              /\ RatEq(dataObj.max, observed[i])
              /\ \A j \in DOMAIN observed : RatLE(observed[j], observed[i])

RECURSIVE SumOf(_)
\* the sum of a list of rationals
SumOf(q) ==
    IF q = <<>> THEN <<0, 1>> ELSE Norm(RatAdd(Head(q), SumOf(Tail(q))))

\* the mean of a non-empty list, and the list of its squared deviations
MeanOf(q) == LET t == SumOf(q) IN Norm(<<t[1], t[2] * Len(q)>>)
SquaredDeviations(q) ==
    [i \in DOMAIN q |->
        LET dev == Norm(RatSub(q[i], MeanOf(q))) IN RatMul(dev, dev)]

\* C21: average is the sum of the observations divided by their count (0
\* for none); variance is the two-pass sample variance, the sum of the
\* squared deviations from the mean divided by N - 1, for N > 1 and 0 for
\* N <= 1; N * (N - 1) * variance = N * sum2 - sum^2, and variance >= 0.
C21_AverageVariance ==
    LET N == Len(observed)
        total == SumOf(observed)
        total2 == SumOf([i \in DOMAIN observed |->
                            RatMul(observed[i], observed[i])])
        var == variance(dataObj)
    IN  /\ RatEq(average(dataObj),
                 IF N = 0 THEN <<0, 1>> ELSE MeanOf(observed))
        /\ RatEq(var,
                 IF N > 1
                 THEN LET ssd == SumOf(SquaredDeviations(observed))
                      IN  Norm(<<ssd[1], ssd[2] * (N - 1)>>)
                 ELSE <<0, 1>>)
        /\ N > 1 =>
              RatEq(RatMul(<<N * (N - 1), 1>>, var),
                    Norm(RatSub(RatMul(<<N, 1>>, total2), RatMul(total, total))))
        /\ RatLE(<<0, 1>>, var)

C21_Witness ==
    /\ observed = <<<<-1, 1>>, <<1, 2>>, <<4, 1>>>>
    /\ dataObj.N = 3
    /\ RatEq(average(dataObj), <<7, 6>>)
    /\ RatLT(<<0, 1>>, variance(dataObj))

---------------------------------------------------------------------------
(* Further claims about one trial (SimSpec) *)

\* a and b are joined by an edge
tied(g, a, b) == <<a, b>> \in g.edges \/ <<b, a>> \in g.edges

\* the neighbours of a that are adopted in g, read off the edges
adoptedTies(g, a) == {b \in g.nodes : tied(g, a, b) /\ g.node[b].adopted}

\* C26: an evaluation uses the adoption state of its moment, not the one
\* of the round's start: the evaluated node counts every neighbour adopted
\* so far, those adopted earlier in the same round included, adopts exactly
\* when I + A * (that count) / N > 0, and then records them as influence.
C26_AsynchronousUpdate ==
    [][(pc = "evaluate" /\ agents' # agents) =>
          LET a == CHOOSE x \in agents \ agents' : TRUE
              current == adoptedTies(G, a)
          IN  /\ lastEval'.node = a
              /\ lastEval'.adoptedNeighbors = current
              /\ G'.node[a].adopted <=>
                    pressureExceeds(G, a, Cardinality(current))
              /\ G'.node[a].adopted => G'.node[a].influence = current]_vars

\* a node adopted only because of a neighbour adopted in the same round
C26_Witness ==
    /\ pc = "evaluate"
    /\ lastEval.adopts
    /\ \E b \in lastEval.adoptedNeighbors :
          b \notin roundStart /\ b \in G.node[lastEval.node].influence
    /\ ~pressureExceeds(G, lastEval.node,
                        Cardinality(lastEval.adoptedNeighbors \cap roundStart))

\* the working network as it was right after seeding
preLoopGraph ==
    [initTrialGraph(Gorig, [n \in Gorig.nodes |-> G.node[n].I], case.Ai)
        EXCEPT !.node[seedNode].adopted = TRUE]

\* C27: seeding and the round loop leave weak and ppoint alone; the
\* boundary analysis leaves I, A, adopted, influence, segments and the edges
\* alone, and its result is the one it gives on the network as it was
\* before the round loop.
C27_AnalysisIndependent ==
    [][/\ pc = "trial_loop" =>
             \A n \in G'.nodes : /\ G'.node[n].weak = Gorig.node[n].weak
                                 /\ G'.node[n].ppoint = Gorig.node[n].ppoint
       /\ InRoundLoop =>
             \A n \in G.nodes : /\ G'.node[n].weak = G.node[n].weak
                                /\ G'.node[n].ppoint = G.node[n].ppoint
       /\ pc = "analyze" =>
             /\ G'.nodes = G.nodes
             /\ G'.edges = G.edges
             /\ \A n \in G.nodes :
                   /\ G'.node[n].I = G.node[n].I
                   /\ G'.node[n].A = G.node[n].A
                   /\ G'.node[n].adopted = G.node[n].adopted
                   /\ G'.node[n].influence = G.node[n].influence
                   /\ G'.node[n].segments = G.node[n].segments
             /\ wpp' = computeWPP(preLoopGraph, defaultProportion,
                                  targetSegmentOf(params.trickleDirection)).result
      ]_vars

\* the analysis marks a node that is tied to a node adopted during the loop
C27_Witness ==
    /\ pc = "record"
    /\ rounds >= 2
    /\ \E a \in G.nodes :
          /\ G.node[a].weak
          /\ G.node[a].ppoint
          /\ \E b \in adoptedTies(G, a) : b # seedNode

RECURSIVE influencers(_, _)
\* the nodes reached from the set S along the influence lists
influencers(g, S) ==
    LET T == S \cup UNION {g.node[b].influence : b \in S}
    IN  IF T = S THEN S ELSE influencers(g, T)

\* C29: in every state of a trial each node b of influence(a) is a neighbour
\* of a, is adopted and was adopted before a; the influence relation has no
\* cycle, the seed's influence is empty and so is that of every node that
\* has not adopted.
C29_InfluenceOrder ==
    /\ []((InRoundLoop \/ Halted) =>
            /\ \A a \in G.nodes :
                  /\ \A b \in G.node[a].influence :
                        tied(G, a, b) /\ G.node[b].adopted
                  /\ a \notin influencers(G, G.node[a].influence)
                  /\ ~G.node[a].adopted => G.node[a].influence = {}
            /\ G.node[seedNode].influence = {})
    /\ [][(InRoundLoop \/ Halted) =>
             \A n \in G.nodes :
                (~G.node[n].adopted /\ G'.node[n].adopted) =>
                    \A b \in G'.node[n].influence : G.node[b].adopted]_vars

\* a chain of influence: the seed, then a node, then a third one
C29_Witness ==
    /\ Halted
    /\ \E a \in G.nodes : \E b \in G.node[a].influence :
          /\ seedNode \in G.node[b].influence
          /\ seedNode \notin G.node[a].influence

---------------------------------------------------------------------------
(* Claims about the attributes the analyzer writes (AnalyzerSpec) *)

\* the members of a list
membersOf(q) == {q[i] : i \in DOMAIN q}

\* C28: after any call with addGraphAttrs = True returns, whatever calls
\* were made on the network before, a node has weak = True exactly when it
\* is in the returned weakness list and ppoint = True exactly when it is in
\* the returned pressure-point list.
C28_MarksMatchResult ==
    AnalysisReturned =>
        \A n \in G.nodes :
            /\ G.node[n].weak <=> n \in membersOf(wpp[1])
            /\ G.node[n].ppoint <=> n \in membersOf(wpp[2])

---------------------------------------------------------------------------
(* Claims about what the trials of a cell share (Spec) *)

\* a step of one trial: its initialisation, its rounds, its analysis, its row
TrialStep ==
    \/ pc = "trial_loop" /\ pc' # "case_loop"
    \/ pc \in {"round_start", "evaluate", "analyze", "record"}

\* a trial of the cell has been recorded and the next one is about to start
BetweenTrials == pc = "trial_loop" /\ trial >= 2

---------------------------------------------------------------------------
(* Claims about the order of the log rows (Spec) *)

\* the cells of the sweep, in the order the case loop visits them
sweepCases ==
    product(xrange0(possibleTies(params.numberOfNodes, numCoreNodes)[3],
                    tieInterval), A_i)

---------------------------------------------------------------------------
(* Claims about invalid configurations (ConfigSpec) *)

\* the configuration is invalid in one of the three ways
invalidConfiguration ==
    \/ params.trickleDirection \notin {"up", "down"}
    \/ params.dots \notin {"all", "wpp", "none"}
    \/ params.pngs \notin {"all", "wpp", "none"}
    \/ params.numberOfNodes < 0

\* C25: called with an invalid configuration, run1997ThresholdModel fails
\* before any network is generated or any trial is simulated, and leaves no
\* output directory or log file behind.
C25_InvalidConfigurationFailsClean ==
    (invalidConfiguration /\ pc # "start") =>
        /\ pc = "failed"
        /\ Gorig = NoGraph
        /\ G = NoGraph
        /\ expTrialLog = <<>>
        /\ ~outFiles.dir
        /\ ~outFiles.logs

---------------------------------------------------------------------------
(* Claims about the layout of the sweep (SweepSpec) *)

\* generateARCorePeriph raises for these arguments: the assertion of line
\* 135 fails, or random.sample is asked for more edges than there are
generationFails(numCore, numPeriph, pties) ==
    \/ ~(numCore >= 0 /\ numPeriph >= 0)
    \/ sampleFails(allPotentialEdges(numCore, numPeriph), pties)

\* the peripheral density logged for a case (line 244)
densityOf(pties) ==
    <<pties, possibleTies(params.numberOfNodes, numCoreNodes)[3]>>

\* C30: for numberOfNodes >= 0 and cpRatio in [0, 1], every peripheral tie
\* count of the sweep is a multiple of 5 with
\* 0 <= pties < possibleTies(numberOfNodes, numCore)[2], so generating the
\* network of the case does not fail and the logged peripheral density
\* pties / totalPossiblePeriphTies lies in [0, 1).
C30_SweepWithinBounds ==
    pc = "case_loop" =>
        /\ numCoreNodes \in 0..params.numberOfNodes
        /\ \A i \in DOMAIN cases :
              LET pties == cases[i][1]
                  bound == possibleTies(params.numberOfNodes, numCoreNodes)[3]
              IN  /\ pties % 5 = 0
                  /\ 0 <= pties
                  /\ pties < bound
                  /\ ~generationFails(numCoreNodes,
                                      params.numberOfNodes - numCoreNodes, pties)
                  /\ RatLE(<<0, 1>>, densityOf(pties))
                  /\ RatLE(densityOf(pties), <<1, 1>>)
                  /\ ~RatEq(densityOf(pties), <<1, 1>>)

C30_Witness ==
    /\ pc = "case_loop"
    /\ params.numberOfNodes = 6
    /\ numCoreNodes = 3
    /\ Len(cases) = 15
    /\ cases[15] = <<10, 5>>

---------------------------------------------------------------------------
(* Claims about the base network of a cell (CellSpec) *)

\* a later trial of the cell starts its round loop
LaterTrialStarts == pc = "round_start" /\ rounds = 0 /\ trial >= 2

\* C22: nothing a trial does changes the base network generated for the
\* cell: from before the first trial to after the last it is a network as
\* generateARCorePeriph returns it, with the same edges and node
\* attributes; and every trial's working copy starts with the base
\* network's nodes, edges and segments and with weak = ppoint = False on
\* every node.
C22_BaseNetworkUntouched ==
    /\ []([err |-> "none", G |-> Gorig] \in
             generateARCorePeriph(numCoreNodes,
                                  params.numberOfNodes - numCoreNodes,
                                  case.pties))
    /\ [][Gorig' = Gorig]_vars
    /\ []((pc = "round_start" /\ rounds = 0) =>
             /\ G.nodes = Gorig.nodes
             /\ G.edges = Gorig.edges
             /\ \A n \in G.nodes :
                   /\ G.node[n].segments = Gorig.node[n].segments
                   /\ ~G.node[n].weak
                   /\ ~G.node[n].ppoint)

C22_Witness ==
    /\ LaterTrialStarts
    /\ lastTrialRow # NoRow
    /\ lastTrialRow[8] >= 1
    /\ lastTrialRow[9] >= 1
    /\ \A n \in G.nodes : ~G.node[n].weak /\ ~G.node[n].ppoint
    /\ Cardinality(Gorig.edges) >= 1

============================================================================
